---------------------------- MODULE Spec2Model ----------------------------
(***************************************************************************)
(* The two texture export scripts of assets/textures/texture_support:      *)
(*   export-exr-hdr.py     sRGB PNG -> linear, white-boosted planar EXR    *)
(*   export-ldr-formats.py sRGB PNG -> eleven LDR raster formats           *)
(* Each script is a straight-line program; a state is the value of its     *)
(* module-level names, the files on disk, the open file handles and the    *)
(* lines printed so far.  float32 samples are fixed-point numbers with     *)
(* Scale units per 1.0.                                                    *)
(***************************************************************************)
EXTENDS Integers, Sequences, FiniteSets, TLC

VARIABLES
    script,            \* which script this run executes: "exr" or "ldr"
    pc,                \* position of the script
    input_png,         \* the decoded content the input file had at the start
    files,             \* the disk: file name -> content
    handles,           \* names of the files the process holds open
    stdout,            \* the lines printed so far
    run,               \* 1 for the first invocation, 2 for the repeated one
    first_output,      \* the EXR file the first invocation left behind
    \* export-exr-hdr.py
    mem,               \* the array buffers: buffer id -> samples
    img_srgb,          \* buffer id bound to img_srgb (0: not bound yet)
    img_linear,        \* buffer id bound to img_linear (0: not bound yet)
    pure_white_mask,   \* the boolean mask, one entry per (row, column)
    img_exr,           \* the transposed view: [base, axes]
    height, width,     \* the dimensions read back from img_exr.shape
    header,            \* the OpenEXR header
    \* export-ldr-formats.py
    img,               \* the PIL image opened from the input
    img_array,         \* np.array(img)
    img_rgba,          \* loop local, last value assigned
    img_data,          \* loop local, last value assigned
    img_array_rgba,    \* loop local, last value assigned
    img_bgra,          \* loop local, last value assigned
    output_filename,   \* loop local, last value assigned
    order,             \* the order in which the loop visits the keys of formats
    idx,               \* position of the loop in order
    keeps_partial,     \* encoder library -> does a failed call leave its file
    handed,            \* key -> what its encoder was called with
    raised             \* key -> "pending", "no" or "yes": did its export raise

shared   == <<script, pc, input_png, files, handles, stdout, run, first_output>>
exrVars  == <<mem, img_srgb, img_linear, pure_white_mask, img_exr, height, width, header>>
ldrVars  == <<img, img_array, img_rgba, img_data, img_array_rgba, img_bgra,
              output_filename, order, idx, keeps_partial, handed, raised>>
vars     == <<shared, exrVars, ldrVars>>

---------------------------------------------------------------------------
(* Bounds and inputs *)

\* An input image of the EXR script has at most MaxPixels pixels.
MaxPixels == 4

\* The pixels input images are made of: pure white, near white, two and one
\* channels saturated, samples on both sides of the 0.04045 branch, black
\* and mid grey samples.
Palette ==
    { <<255, 255, 255>>, <<255, 255, 254>>, <<255, 10, 11>>, <<0, 128, 255>> }

Shapes ==
    { s \in (1..MaxPixels) \X (1..MaxPixels) : s[1] * s[2] <= MaxPixels }

\* Every height x width x 3 array of 8-bit samples over the palette.
Images ==
    UNION { [1..s[1] -> [1..s[2] -> Palette]] : s \in Shapes }

\* The value of an array name that is not bound yet.
NoArray == << >>

---------------------------------------------------------------------------
(* float32 arithmetic, as fixed-point numbers *)

Scale == 10000

ToFloat(v) == v * Scale
Mul(a, b)  == (a * b) \div Scale
Div(a, b)  == (a * Scale) \div b

One       == Scale
Threshold == (4045 * Scale) \div 100000     \* 0.04045
LowSlope  == (1292 * Scale) \div 100        \* 12.92
Offset    == (55 * Scale) \div 1000         \* 0.055
Divisor   == (1055 * Scale) \div 1000       \* 1.055
Boost     == 10 * Scale                     \* 10.0

Pow5(r) == Mul(Mul(Mul(Mul(r, r), r), r), r)

\* The largest r in lo..hi with r^5 <= y.
RECURSIVE RootSearch(_, _, _)
RootSearch(y, lo, hi) ==
    IF lo >= hi THEN lo
    ELSE LET mid == (lo + hi + 1) \div 2
         IN  IF Pow5(mid) <= y THEN RootSearch(y, mid, hi)
                               ELSE RootSearch(y, lo, mid - 1)

\* x ** 2.4 for 0 <= x <= 1: x^2.4 = x^2 * (x^2)^(1/5).
Pow24(x) ==
    LET x2 == Mul(x, x)
    IN  Mul(x2, RootSearch(x2, 0, One))

\* One sample of srgb_to_linear: np.where picks the branch per element.
LinearSample(s) ==
    IF s <= Threshold THEN Div(s, LowSlope)
                      ELSE Pow24(Div(s + Offset, Divisor))

---------------------------------------------------------------------------
(* Arrays: a[row][column][channel], indices from 1 *)

Rows(a) == Len(a)
Cols(a) == IF Len(a) = 0 THEN 0 ELSE Len(a[1])

\* imread(...).astype(np.float32) / 255.0
Normalize(a) ==
    [r \in DOMAIN a |-> [c \in DOMAIN a[r] |->
        [ch \in DOMAIN a[r][c] |-> ToFloat(a[r][c][ch]) \div 255]]]

srgb_to_linear(srgb) ==
    [r \in DOMAIN srgb |-> [c \in DOMAIN srgb[r] |->
        [ch \in DOMAIN srgb[r][c] |-> LinearSample(srgb[r][c][ch])]]]

\* A faulty variant of PureWhiteMask: np.any in place of np.all.
AnyWhiteMask(srgb) ==
    [r \in DOMAIN srgb |-> [c \in DOMAIN srgb[r] |->
        \E ch \in DOMAIN srgb[r][c] : srgb[r][c][ch] = One]]

\* np.all(img_srgb == 1.0, axis=-1)
PureWhiteMask(srgb) ==
    [r \in DOMAIN srgb |-> [c \in DOMAIN srgb[r] |->
        \A ch \in DOMAIN srgb[r][c] : srgb[r][c][ch] = One]]

\* img_linear[pure_white_mask] *= 10.0
BoostMasked(linear, mask) ==
    [r \in DOMAIN linear |-> [c \in DOMAIN linear[r] |->
        IF mask[r][c]
        THEN [ch \in DOMAIN linear[r][c] |-> Mul(linear[r][c][ch], Boost)]
        ELSE linear[r][c]]]

\* A faulty variant of ResultBuffer: the conversion done in place.
ResultBufferInPlace(src) == src

\* np.where returns a newly allocated array: the buffer after its argument's.
ResultBuffer(src) == src + 1

\* A faulty variant of Transpose201: transpose(2, 1, 0).
Transpose210(a) ==
    [ch \in 1..Len(a[1][1]) |-> [c \in 1..Len(a[1]) |-> [r \in 1..Len(a) |->
        a[r][c][ch]]]]

\* a.transpose(2, 0, 1): out[ch][r][c] = a[r][c][ch]
Transpose201(a) ==
    [ch \in 1..Len(a[1][1]) |-> [r \in 1..Len(a) |-> [c \in 1..Len(a[1]) |->
        a[r][c][ch]]]]

\* What the view img_exr reads: it shares the buffer of img_linear.
ViewArray(m, view) == Transpose201(m[view.base])

\* plane.astype(np.float32).tobytes(): the samples of one plane, row-major.
ToBytes(plane) ==
    LET h == Len(plane)
        w == Len(plane[1])
    IN  [k \in 1..(h * w) |-> plane[((k - 1) \div w) + 1][((k - 1) % w) + 1]]

\* OpenEXR.Header(width, height)
Header(w, h) == [width |-> w, height |-> h]
NoHeader     == Header(0, 0)

channels == <<"R", "G", "B">>

input_filename      == "png-srgb-rgb.png"
output_exr_filename == "exr-hdr.exr"

NoView    == [base |-> 0, axes |-> << >>]
NoExrFile == [header |-> NoHeader, channels |-> << >>]
NoBuffers == [b \in 1..2 |-> NoArray]


---------------------------------------------------------------------------
(* export-exr-hdr.py *)

ExrStart ==
    /\ mem = NoBuffers /\ img_srgb = 0 /\ img_linear = 0
    /\ pure_white_mask = NoArray /\ img_exr = NoView
    /\ height = 0 /\ width = 0 /\ header = NoHeader

\* An uncaught exception ends the script where it stands.
Crash(vs) ==
    /\ pc' = "crashed"
    /\ UNCHANGED vs

\* img_srgb = iio.imread(input_filename).astype(np.float32) / 255.0
\* imread raises when the input file is missing.
ExrLoad ==
    /\ script = "exr" /\ pc = "start"
    /\ IF input_filename \in DOMAIN files
       THEN /\ mem' = [mem EXCEPT ![1] = Normalize(files[input_filename])]
            /\ img_srgb' = 1
            /\ pc' = "convert"
            /\ UNCHANGED <<script, input_png, files, handles, stdout, run, first_output>>
            /\ UNCHANGED <<img_linear, pure_white_mask, img_exr, height, width, header>>
       ELSE Crash(<<script, input_png, files, handles, stdout, run, first_output,
                    exrVars>>)
    /\ UNCHANGED ldrVars

\* img_linear = srgb_to_linear(img_srgb)
ExrLinear ==
    /\ script = "exr" /\ pc = "convert"
    /\ img_linear' = ResultBuffer(img_srgb)
    /\ mem' = [mem EXCEPT ![ResultBuffer(img_srgb)] = srgb_to_linear(mem[img_srgb])]
    /\ pc' = "mask"
    /\ UNCHANGED <<script, input_png, files, handles, stdout, run, first_output>>
    /\ UNCHANGED <<img_srgb, pure_white_mask, img_exr, height, width, header>>
    /\ UNCHANGED ldrVars

\* pure_white_mask = np.all(img_srgb == 1.0, axis=-1)
ExrMask ==
    /\ script = "exr" /\ pc = "mask"
    /\ pure_white_mask' = PureWhiteMask(mem[img_srgb])
    /\ pc' = "boost"
    /\ UNCHANGED <<script, input_png, files, handles, stdout, run, first_output>>
    /\ UNCHANGED <<mem, img_srgb, img_linear, img_exr, height, width, header>>
    /\ UNCHANGED ldrVars

\* img_linear[pure_white_mask] *= 10.0, in place in the buffer of img_linear
ExrBoost ==
    /\ script = "exr" /\ pc = "boost"
    /\ mem' = [mem EXCEPT ![img_linear] = BoostMasked(@, pure_white_mask)]
    /\ pc' = "transpose"
    /\ UNCHANGED <<script, input_png, files, handles, stdout, run, first_output>>
    /\ UNCHANGED <<img_srgb, img_linear, pure_white_mask, img_exr, height, width, header>>
    /\ UNCHANGED ldrVars

\* img_exr = img_linear.transpose(2, 0, 1): a view, no samples are copied
ExrTranspose ==
    /\ script = "exr" /\ pc = "transpose"
    /\ img_exr' = [base |-> img_linear, axes |-> <<2, 0, 1>>]
    /\ pc' = "header"
    /\ UNCHANGED <<script, input_png, files, handles, stdout, run, first_output>>
    /\ UNCHANGED <<mem, img_srgb, img_linear, pure_white_mask, height, width, header>>
    /\ UNCHANGED ldrVars

\* height, width = img_exr.shape[1], img_exr.shape[2]
\* header = OpenEXR.Header(width, height)
ExrHeader ==
    /\ script = "exr" /\ pc = "header"
    /\ LET exr == ViewArray(mem, img_exr)
           h   == Len(exr[1])
           w   == Len(exr[1][1])
       IN  /\ height' = h
           /\ width' = w
           /\ header' = Header(w, h)
    /\ pc' = "open"
    /\ UNCHANGED <<script, input_png, files, handles, stdout, run, first_output>>
    /\ UNCHANGED <<mem, img_srgb, img_linear, pure_white_mask, img_exr>>
    /\ UNCHANGED ldrVars

\* exr_file = OpenEXR.OutputFile(output_exr_filename, header)
\* Creates the file and keeps it open; raises when it cannot be created.
ExrOpen ==
    /\ script = "exr" /\ pc = "open"
    /\ \E ok \in BOOLEAN :
         IF ok
         THEN /\ handles' = handles \cup {output_exr_filename}
              /\ files' = (output_exr_filename :>
                             [header |-> header, channels |-> << >>]) @@ files
              /\ pc' = "write"
              /\ UNCHANGED <<script, input_png, stdout, run, first_output>>
         ELSE Crash(<<script, input_png, files, handles, stdout, run, first_output>>)
    /\ UNCHANGED exrVars
    /\ UNCHANGED ldrVars

\* exr_file.writePixels({ch: img_exr[i].astype(np.float32).tobytes() ...})
\* The script has no exr_file.close(): the handle stays in handles.
ExrWrite ==
    /\ script = "exr" /\ pc = "write"
    /\ \E ok \in BOOLEAN :
         IF ok
         THEN /\ files' = [files EXCEPT ![output_exr_filename].channels =
                    LET exr == ViewArray(mem, img_exr)
                    IN  [i \in DOMAIN channels |-> <<channels[i], ToBytes(exr[i])>>]]
              /\ pc' = "print"
              /\ UNCHANGED <<script, input_png, handles, stdout, run, first_output>>
         ELSE Crash(<<script, input_png, files, handles, stdout, run, first_output>>)
    /\ UNCHANGED exrVars
    /\ UNCHANGED ldrVars

\* print(f"Saved linear HDR image to {output_exr_filename}")
ExrPrint ==
    /\ script = "exr" /\ pc = "print"
    /\ stdout' = Append(stdout, "Saved linear HDR image to " \o output_exr_filename)
    /\ pc' = "done"
    /\ UNCHANGED <<script, input_png, files, handles, run, first_output>>
    /\ UNCHANGED exrVars
    /\ UNCHANGED ldrVars

\* python ./scripts/export-exr-hdr.py, a second time on the same disk: a new
\* process, so every name is unbound again and no handle is inherited.
ExrRerun ==
    /\ script = "exr" /\ pc = "done" /\ run = 1
    /\ run' = 2
    /\ first_output' = files[output_exr_filename]
    /\ pc' = "start"
    /\ handles' = {}
    /\ stdout' = << >>
    /\ mem' = NoBuffers /\ img_srgb' = 0 /\ img_linear' = 0
    /\ pure_white_mask' = NoArray /\ img_exr' = NoView
    /\ height' = 0 /\ width' = 0 /\ header' = NoHeader
    /\ UNCHANGED <<script, input_png, files>>
    /\ UNCHANGED ldrVars

NextExr ==
    \/ ExrLoad
    \/ ExrLinear
    \/ ExrMask
    \/ ExrBoost
    \/ ExrTranspose
    \/ ExrHeader
    \/ ExrOpen
    \/ ExrWrite
    \/ ExrPrint
    \/ ExrRerun

---------------------------------------------------------------------------
(* export-ldr-formats.py *)

\* The formats dict, in insertion order: <<key (the extension), format>>.
formats ==
    << <<"bmp", "bmp">>, <<"dds", "dds">>, <<"gif", "gif">>, <<"ico", "ico">>,
       <<"jpg", "jpeg">>, <<"qoi", "qoi">>, <<"tga", "tga">>, <<"tif", "tiff">>,
       <<"webp", "webp">>, <<"pam", "pam">>, <<"ppm", "ppm">> >>

\* formats.items() yields the keys in insertion order.
Keys == [i \in DOMAIN formats |-> formats[i][1]]
Exts == { formats[i][1] : i \in DOMAIN formats }

\* formats[ext]
FormatOf(ext) == formats[CHOOSE i \in DOMAIN formats : formats[i][1] = ext][2]

\* The value None of the dict: no key of the table has it.
None == "None"

\* fmt.upper(), on the format names of the table
Upper(fmt) ==
    CASE fmt = "bmp"  -> "BMP"
      [] fmt = "gif"  -> "GIF"
      [] fmt = "jpeg" -> "JPEG"
      [] fmt = "tga"  -> "TGA"
      [] fmt = "tiff" -> "TIFF"
      [] fmt = "webp" -> "WEBP"
      [] fmt = "ppm"  -> "PPM"
      [] fmt = "ico"  -> "ICO"
      [] fmt = "dds"  -> "DDS"
      [] fmt = "qoi"  -> "QOI"
      [] fmt = "pam"  -> "PAM"
      [] OTHER        -> fmt

output_dir == "./"

\* A faulty variant of OutputFilename: the format name as the extension.
OutputFilenameByFormat(ext) == output_dir \o ext \o "." \o FormatOf(ext)

\* os.path.join(output_dir, f"{ext}.{ext}")
OutputFilename(ext) == output_dir \o ext \o "." \o ext

\* A PIL image: its mode and its pixels.
NoImage == [mode |-> "", px |-> NoArray]

\* Image.open(input_filename), of an 8-bit RGB file
OpenImage(a) == [mode |-> "RGB", px |-> a]

\* im.convert(mode): a new image; RGB -> RGBA adds an opaque alpha sample.
Convert(im, mode) ==
    IF im.mode = mode THEN im
    ELSE IF mode = "RGBA"
         THEN [mode |-> "RGBA",
               px |-> [r \in DOMAIN im.px |-> [c \in DOMAIN im.px[r] |->
                         Append(SubSeq(im.px[r][c], 1, 3), 255)]]]
         ELSE [mode |-> "RGB",
               px |-> [r \in DOMAIN im.px |-> [c \in DOMAIN im.px[r] |->
                         SubSeq(im.px[r][c], 1, 3)]]]

\* A faulty variant of SourceAfterConvert: the conversion done on the source itself.
SourceConvertedInPlace(im, mode) == Convert(im, mode)

\* What im is after im.convert(mode): convert leaves its source as it was.
SourceAfterConvert(im, mode) == im

\* np.array(im)
NpArray(im) == im.px

\* A faulty variant of TakeChannels: the channel index list ignored.
TakeChannelsUnswapped(arr, index) == arr

\* arr[..., index], index a list of 0-based channel numbers: a new array
TakeChannels(arr, index) ==
    [r \in DOMAIN arr |-> [c \in DOMAIN arr[r] |->
        [k \in DOMAIN index |-> arr[r][c][index[k] + 1]]]]

\* A call of an encoder: which one, and what it was given.
NoCall == [api |-> "", mode |-> "", data |-> NoArray, format |-> ""]
QoiEncode(data)     == [api |-> "qoi.encode", mode |-> "ndarray", data |-> data,
                        format |-> ""]
ImWrite(data, ext)  == [api |-> "iio.imwrite", mode |-> "ndarray", data |-> data,
                        format |-> ext]
ImageSave(im, fmt)  == [api |-> "Image.save", mode |-> im.mode, data |-> im.px,
                        format |-> fmt]

\* The content of an output file: what was encoded, and whether all of it.
Written(call)   == [complete |-> TRUE, call |-> call]
Truncated(call) == [complete |-> FALSE, call |-> call]

\* A faulty variant of LogLines: the success line printed after the try statement.
LogLinesAfterTry(ext, name, raises) ==
    (IF raises THEN << "Failed to save " \o ext \o ": error" >> ELSE << >>)
        \o << "Saved: " \o name >>

\* print(f"Saved: ...") ends the try body; print(f"Failed to save ...") is
\* the except body.
LogLines(ext, name, raises) ==
    IF raises THEN << "Failed to save " \o ext \o ": error" >>
              ELSE << "Saved: " \o name >>

\* A faulty variant of Continue: the except clause leaves the loop.
Break(i, n) == n + 1

\* After the except clause the for statement goes on with the next key.
Continue(i, n) == i + 1

LdrStart ==
    /\ img = NoImage /\ img_array = NoArray
    /\ img_rgba = NoImage /\ img_data = NoArray
    /\ img_array_rgba = NoArray /\ img_bgra = NoArray
    /\ output_filename = ""
    /\ idx = 1
    /\ handed = [e \in Exts |-> NoCall]
    /\ raised = [e \in Exts |-> "pending"]

\* A faulty variant of LdrLoad: a failed load swallowed, the loop run on no image.
LdrLoadSwallowed ==
    /\ script = "ldr" /\ pc = "start"
    /\ IF input_filename \in DOMAIN files
       THEN /\ img' = OpenImage(files[input_filename])
            /\ img_array' = NpArray(OpenImage(files[input_filename]))
       ELSE /\ img' = NoImage
            /\ img_array' = NoArray
    /\ pc' = "loop"
    /\ UNCHANGED <<script, input_png, files, handles, stdout, run, first_output>>
    /\ UNCHANGED <<img_rgba, img_data, img_array_rgba, img_bgra, output_filename,
                   order, idx, keeps_partial, handed, raised>>
    /\ UNCHANGED exrVars

\* img = Image.open(input_filename); img_array = np.array(img)
\* Image.open raises when the input file is missing; nothing catches it.
LdrLoad ==
    /\ script = "ldr" /\ pc = "start"
    /\ IF input_filename \in DOMAIN files
       THEN /\ img' = OpenImage(files[input_filename])
            /\ img_array' = NpArray(OpenImage(files[input_filename]))
            /\ pc' = "loop"
            /\ UNCHANGED <<script, input_png, files, handles, stdout, run, first_output>>
            /\ UNCHANGED <<img_rgba, img_data, img_array_rgba, img_bgra,
                           output_filename, order, idx, keeps_partial, handed, raised>>
       ELSE Crash(<<script, input_png, files, handles, stdout, run, first_output,
                    ldrVars>>)
    /\ UNCHANGED exrVars

\* One pass of the loop body for a key that is not written through open():
\* lines 34-65 without the qoi branch.  The encoder either returns, and the
\* file is written, or raises, leaving no file or, with a library that does
\* not remove what it began to write, a truncated one.
LdrExport ==
    /\ script = "ldr" /\ pc = "loop" /\ idx <= Len(order)
    /\ FormatOf(order[idx]) # "qoi"
    /\ LET ext  == order[idx]
           fmt  == FormatOf(ext)
           name == OutputFilename(ext)
       IN  IF fmt = None
           THEN /\ stdout' = Append(stdout, "Skipping " \o ext \o " (unsupported format)")
                /\ idx' = idx + 1
                /\ UNCHANGED <<script, pc, input_png, files, handles, run, first_output>>
                /\ UNCHANGED <<img, img_array, img_rgba, img_data, img_array_rgba,
                               img_bgra, output_filename, order, keeps_partial,
                               handed, raised>>
           ELSE \E raises \in BOOLEAN :
                LET rgb   == Convert(img, "RGB")
                    bgr   == TakeChannels(NpArray(rgb), <<2, 1, 0>>)
                    rgba  == Convert(img, "RGBA")
                    call  == CASE fmt = "dds" -> ImWrite(bgr, ".dds")
                               [] fmt = "pam" -> ImWrite(img_array, "")
                               [] fmt = "ico" -> ImageSave(rgba, "ICO")
                               [] OTHER       -> ImageSave(img, Upper(fmt))
                IN  /\ output_filename' = name
                    /\ img_rgba' = CASE fmt = "dds" -> rgb
                                     [] fmt = "ico" -> rgba
                                     [] OTHER       -> img_rgba
                    /\ img_array_rgba' = IF fmt = "dds" THEN NpArray(rgb)
                                                        ELSE img_array_rgba
                    /\ img_bgra' = IF fmt = "dds" THEN bgr ELSE img_bgra
                    /\ img' = CASE fmt = "dds" -> SourceAfterConvert(img, "RGB")
                                [] fmt = "ico" -> SourceAfterConvert(img, "RGBA")
                                [] OTHER       -> img
                    /\ handed' = [handed EXCEPT ![ext] = call]
                    /\ raised' = [raised EXCEPT ![ext] = IF raises THEN "yes" ELSE "no"]
                    /\ files' = IF ~raises THEN (name :> Written(call)) @@ files
                                ELSE IF keeps_partial[call.api]
                                THEN (name :> Truncated(call)) @@ files
                                ELSE files
                    /\ stdout' = stdout \o LogLines(ext, name, raises)
                    /\ idx' = IF raises THEN Continue(idx, Len(order)) ELSE idx + 1
                    /\ UNCHANGED <<script, pc, input_png, handles, run, first_output>>
                    /\ UNCHANGED <<img_array, img_data, order, keeps_partial>>
    /\ UNCHANGED exrVars

\* The qoi branch up to the with statement: img_rgba = img.convert("RGBA"),
\* img_data = np.array(img_rgba), open(output_filename, "wb").  open creates
\* an empty file and the handle is held; when open raises, the except clause
\* runs.
LdrQoiOpen ==
    /\ script = "ldr" /\ pc = "loop" /\ idx <= Len(order)
    /\ FormatOf(order[idx]) = "qoi"
    /\ LET ext  == order[idx]
           name == OutputFilename(ext)
           rgba == Convert(img, "RGBA")
       IN  \E ok \in BOOLEAN :
           /\ output_filename' = name
           /\ img_rgba' = rgba
           /\ img_data' = NpArray(rgba)
           /\ img' = SourceAfterConvert(img, "RGBA")
           /\ IF ok
              THEN /\ handles' = handles \cup {name}
                   /\ files' = (name :> Truncated(NoCall)) @@ files
                   /\ pc' = "qoi_write"
                   /\ UNCHANGED <<stdout, idx, raised>>
              ELSE /\ raised' = [raised EXCEPT ![ext] = "yes"]
                   /\ stdout' = stdout \o LogLines(ext, name, TRUE)
                   /\ idx' = Continue(idx, Len(order))
                   /\ UNCHANGED <<pc, files, handles>>
    /\ UNCHANGED <<script, input_png, run, first_output>>
    /\ UNCHANGED <<img_array, img_array_rgba, img_bgra, order, keeps_partial, handed>>
    /\ UNCHANGED exrVars

\* f.write(qoi.encode(img_data)) and the end of the with statement, which
\* closes f whether or not the body raised; then the print of either clause.
LdrQoiWrite ==
    /\ script = "ldr" /\ pc = "qoi_write"
    /\ LET ext  == order[idx]
           name == output_filename
           call == QoiEncode(img_data)
       IN  \E raises \in BOOLEAN :
           /\ handed' = [handed EXCEPT ![ext] = call]
           /\ raised' = [raised EXCEPT ![ext] = IF raises THEN "yes" ELSE "no"]
           /\ files' = IF raises THEN files
                       ELSE [files EXCEPT ![name] = Written(call)]
           /\ handles' = handles \ {name}
           /\ stdout' = stdout \o LogLines(ext, name, raises)
           /\ idx' = IF raises THEN Continue(idx, Len(order)) ELSE idx + 1
    /\ pc' = "loop"
    /\ UNCHANGED <<script, input_png, run, first_output>>
    /\ UNCHANGED <<img, img_array, img_rgba, img_data, img_array_rgba, img_bgra,
                   output_filename, order, keeps_partial>>
    /\ UNCHANGED exrVars

\* The for statement finds no key left: the script ends.
LdrFinish ==
    /\ script = "ldr" /\ pc = "loop" /\ idx > Len(order)
    /\ pc' = "done"
    /\ UNCHANGED <<script, input_png, files, handles, stdout, run, first_output>>
    /\ UNCHANGED ldrVars
    /\ UNCHANGED exrVars

NextLdr ==
    \/ LdrLoad
    \/ LdrExport
    \/ LdrQoiOpen
    \/ LdrQoiWrite
    \/ LdrFinish

---------------------------------------------------------------------------
(* The specifications *)

\* The source images of the LDR script: one pixel, and a row of two.
LdrSources ==
    { << << <<0, 128, 255>> >> >>,
      << << <<255, 10, 11>>, <<0, 128, 255>> >> >> }

NoFiles == << >>

\* The disk holds the input file, or the input file is missing.
InitDisk(sources) ==
    /\ input_png \in sources \cup {NoArray}
    /\ files = IF input_png = NoArray THEN NoFiles
                                      ELSE (input_filename :> input_png)

InitProcess ==
    /\ pc = "start" /\ run = 1 /\ first_output = NoExrFile
    /\ handles = {} /\ stdout = << >>
    /\ ExrStart
    /\ LdrStart

\* The libraries the LDR script calls to write a file by name.
Libraries == {"Image.save", "iio.imwrite"}

\* Either script, started on any input; the loop visits the keys as listed.
Init ==
    /\ script \in {"exr", "ldr"}
    /\ InitDisk(IF script = "exr" THEN Images ELSE LdrSources)
    /\ InitProcess
    /\ order = Keys
    /\ keeps_partial \in IF script = "exr" THEN {[l \in Libraries |-> FALSE]}
                                           ELSE [Libraries -> BOOLEAN]

Next == NextExr \/ NextLdr

Spec == Init /\ [][Next]_vars

\* Orders in which the loop body could visit the keys: every rotation of the
\* listed order, and the listed order reversed.  Every two keys come in both
\* orders and every key comes first and last.
Rotate(s, k) == [i \in DOMAIN s |-> s[((i + k - 1) % Len(s)) + 1]]
Reverse(s)   == [i \in DOMAIN s |-> s[Len(s) + 1 - i]]
Orders       == { Rotate(Keys, k) : k \in 0..(Len(Keys) - 1) } \cup { Reverse(Keys) }

\* The LDR script with its loop visiting the keys in any of these orders.
InitPerm ==
    /\ script = "ldr"
    /\ InitDisk({ << << <<255, 10, 11>>, <<0, 128, 255>> >> >> })
    /\ InitProcess
    /\ order \in Orders
    /\ keeps_partial \in [Libraries -> BOOLEAN]

SpecPerm == InitPerm /\ [][NextLdr]_vars

---------------------------------------------------------------------------
(* The claims *)

\* The EXR script has passed the boost / the transpose / the header / the write.
Boosted    == script = "exr" /\ pc \in {"transpose", "header", "open", "write", "print", "done"}
Transposed == script = "exr" /\ pc \in {"header", "open", "write", "print", "done"}
Headed     == script = "exr" /\ pc \in {"open", "write", "print", "done"}
ExrSaved   == script = "exr" /\ pc \in {"print", "done"}

\* The sRGB sample of an 8-bit sample, and the position of (r, c) in a plane.
Srgb(v)        == ToFloat(v) \div 255
Offs(r, c, w)  == (r - 1) * w + c

\* C1: every pixel whose three source samples are 255 comes out as
\* 10.0 x linear(1.0) = 10.0 in each channel; every other pixel, also one
\* with one or two samples at 255, comes out as linear(s) of its own samples;
\* in the boosted buffer and in the planes written to the file.
C1_BoostOnlyPureWhite ==
    /\ Boosted =>
         \A r \in DOMAIN input_png : \A c \in DOMAIN input_png[r] :
            LET p   == input_png[r][c]
                out == mem[img_linear][r][c]
            IN  IF p[1] = 255 /\ p[2] = 255 /\ p[3] = 255
                THEN \A ch \in 1..3 : /\ out[ch] = Mul(LinearSample(One), Boost)
                                      /\ out[ch] = 10 * One
                ELSE \A ch \in 1..3 : out[ch] = LinearSample(Srgb(p[ch]))
    /\ ExrSaved =>
         \A r \in DOMAIN input_png : \A c \in DOMAIN input_png[r] : \A ch \in 1..3 :
            LET p == input_png[r][c]
                w == Len(input_png[1])
            IN  files[output_exr_filename].channels[ch][2][Offs(r, c, w)] =
                    IF p = <<255, 255, 255>> THEN 10 * One
                                             ELSE LinearSample(Srgb(p[ch]))

\* C1 witness: a written image with a pure white pixel and a pixel that has
\* two samples at 255.
C1_Witness ==
    /\ ExrSaved /\ pc = "done"
    /\ \E r \in DOMAIN input_png : \E c \in DOMAIN input_png[r] :
          input_png[r][c] = <<255, 255, 255>>
    /\ \E r \in DOMAIN input_png : \E c \in DOMAIN input_png[r] :
          input_png[r][c] = <<255, 255, 254>>

\* C4: the planar buffer of a (height, width, 3) input has dimensions
\* (3, height, width) with out[ch][r][c] = linear_boosted[r][c][ch]; the
\* header holds (width, height) of the input; planes 1, 2, 3 are written as
\* R, G, B with height*width samples each, row-major; height and width are
\* the same in every buffer of the run.
C4_PlanarLayout ==
    LET H == Rows(input_png)
        W == Cols(input_png)
    IN  /\ (script = "exr" /\ img_srgb # 0) =>
              /\ Rows(mem[img_srgb]) = H
              /\ \A r \in 1..H : Len(mem[img_srgb][r]) = W
        /\ (script = "exr" /\ img_linear # 0) =>
              /\ Rows(mem[img_linear]) = H
              /\ \A r \in 1..H : Len(mem[img_linear][r]) = W
        /\ (script = "exr" /\ pure_white_mask # NoArray) =>
              /\ Rows(pure_white_mask) = H
              /\ \A r \in 1..H : Len(pure_white_mask[r]) = W
        /\ Transposed =>
              LET exr == ViewArray(mem, img_exr)
              IN  /\ Len(exr) = 3
                  /\ \A ch \in 1..3 :
                       /\ Len(exr[ch]) = H
                       /\ \A r \in 1..H :
                            /\ Len(exr[ch][r]) = W
                            /\ \A c \in 1..W :
                                 exr[ch][r][c] = mem[img_linear][r][c][ch]
        /\ Headed =>
              /\ height = H /\ width = W
              /\ header = [width |-> W, height |-> H]
        /\ ExrSaved =>
              LET f == files[output_exr_filename]
              IN  /\ f.header = [width |-> W, height |-> H]
                  /\ Len(f.channels) = 3
                  /\ f.channels[1][1] = "R"
                  /\ f.channels[2][1] = "G"
                  /\ f.channels[3][1] = "B"
                  /\ \A ch \in 1..3 :
                       /\ Len(f.channels[ch][2]) = H * W
                       /\ \A r \in 1..H : \A c \in 1..W :
                            f.channels[ch][2][Offs(r, c, W)] =
                                mem[img_linear][r][c][ch]

\* C4 witness: a written image that is not square and whose pixels differ.
C4_Witness ==
    /\ ExrSaved /\ pc = "done"
    /\ Rows(input_png) = 2 /\ Cols(input_png) = 1
    /\ input_png[1][1] # input_png[2][1]

\* C5: a run does not modify its input file; the in-place boost changes the
\* buffer of img_linear only, which is another buffer than that of img_srgb,
\* so img_srgb keeps the normalized input; and a second run on the same input
\* writes the same file as the first.
C5_PureAndDeterministic ==
    /\ (script = "exr" /\ input_png # NoArray) => files[input_filename] = input_png
    /\ (script = "exr" /\ img_srgb # 0) => mem[img_srgb] = Normalize(input_png)
    /\ (script = "exr" /\ img_linear # 0) => img_linear # img_srgb
    /\ (ExrSaved /\ run = 2) => files[output_exr_filename] = first_output

\* C5 witness: the second run has written its file, and the boost acted.
C5_Witness ==
    /\ ExrSaved /\ run = 2 /\ pc = "done"
    /\ \E r \in DOMAIN input_png : \E c \in DOMAIN input_png[r] :
          /\ input_png[r][c] = <<255, 255, 255>>
          /\ pure_white_mask[r][c]

\* What the claims say of the LDR script: the file name and the lines of a
\* key, and the keys the loop has gone through.
ExpectedName(ext) == "./" \o ext \o "." \o ext
SavedLine(ext)    == "Saved: " \o ExpectedName(ext)
FailedLine(ext)   == "Failed to save " \o ext \o ": error"
OutputNames       == DOMAIN files \ {input_filename}
Passed(j)         == pc = "done" \/ j < idx
HasComplete(ext)  == /\ ExpectedName(ext) \in DOMAIN files
                     /\ files[ExpectedName(ext)].complete

\* C2: a caught failure stops nothing: when the loop has ended it has gone
\* through the whole list, every key has been attempted whatever failed
\* before it, and every key whose export did not raise is saved.
C2_FailureDoesNotStopLoop ==
    script = "ldr" =>
        /\ pc = "done" => idx = Len(order) + 1
        /\ \A j \in DOMAIN order : Passed(j) =>
              /\ raised[order[j]] # "pending"
              /\ raised[order[j]] = "no" =>
                    /\ HasComplete(order[j])
                    /\ SavedLine(order[j]) \in { stdout[k] : k \in DOMAIN stdout }

\* C2 witness: the loop has ended, a key failed and a later key succeeded.
C2_Witness ==
    /\ script = "ldr" /\ pc = "done"
    /\ \E i \in DOMAIN order : \E j \in DOMAIN order :
          /\ i < j
          /\ raised[order[i]] = "yes"
          /\ raised[order[j]] = "no"
          /\ HasComplete(order[j])

\* Each key has one line of output and one place in the order of the loop.
HandledOnce(ext) ==
    /\ Cardinality({ k \in DOMAIN stdout :
                       stdout[k] \in {SavedLine(ext), FailedLine(ext)} }) = 1
    /\ Cardinality({ j \in DOMAIN order : order[j] = ext }) = 1

\* C3 as claimed: when the loop has ended every one of the eleven keys has
\* its output file ext.ext, each key was handled once and there is no other
\* output file.
C3_OneFilePerKey ==
    (script = "ldr" /\ pc = "done") =>
        /\ OutputNames = { ExpectedName(e) : e \in Exts }
        /\ \A e \in Exts : HandledOnce(e)

\* C3 as amended: no file with a name other than ext.ext of a listed key is
\* ever written; when the loop has ended each key was handled once, each key
\* whose export did not raise has its complete file ext.ext, and a key whose
\* export raised has no file or a truncated one.
C3_OneFilePerSavedKey ==
    script = "ldr" =>
        /\ OutputNames \subseteq { ExpectedName(e) : e \in Exts }
        /\ pc = "done" =>
              \A e \in Exts :
                 /\ HandledOnce(e)
                 /\ raised[e] = "no" => HasComplete(e)
                 /\ raised[e] = "yes" => ~HasComplete(e)

\* C3 witness: the loop has ended with a saved key and with a failed key that
\* has no file.
C3_Witness ==
    /\ script = "ldr" /\ pc = "done"
    /\ \E e \in Exts : raised[e] = "no" /\ HasComplete(e)
    /\ \E e \in Exts : raised[e] = "yes" /\ ExpectedName(e) \notin DOMAIN files

\* C6: with the input file missing the run ends at the load: no export is
\* attempted, no file is created, no file is opened, nothing is printed.
C6_LoadFailureIsFatal ==
    input_png = NoArray =>
        /\ pc \in {"start", "crashed"}
        /\ DOMAIN files = {}
        /\ handles = {}
        /\ stdout = << >>
        /\ idx = 1
        /\ \A e \in Exts : raised[e] = "pending" /\ handed[e] = NoCall
        /\ img_srgb = 0 /\ img = NoImage

\* C6 witness: the LDR script has ended on its missing input.
C6_Witness ==
    script = "ldr" /\ input_png = NoArray /\ pc = "crashed"

\* C7 as claimed: every handle a script opens is released after its write,
\* on the success and on the failure path: none is held between two passes
\* of the loop, none after the last write of a script.
C7_HandlesReleased ==
    /\ (script = "ldr" /\ pc \in {"loop", "done"}) => handles = {}
    /\ (script = "exr" /\ pc \in {"print", "done"}) => handles = {}
    /\ (script = "exr" /\ pc = "crashed") => handles = {}

\* What each key's encoder is to be given, from the input alone.
WithAlpha(a) ==
    [r \in DOMAIN a |-> [c \in DOMAIN a[r] |->
        <<a[r][c][1], a[r][c][2], a[r][c][3], 255>>]]
SwappedRB(a) ==
    [r \in DOMAIN a |-> [c \in DOMAIN a[r] |->
        <<a[r][c][3], a[r][c][2], a[r][c][1]>>]]
ExpectedCall(ext) ==
    CASE ext = "qoi"  -> [api |-> "qoi.encode", mode |-> "ndarray",
                          data |-> WithAlpha(input_png), format |-> ""]
      [] ext = "dds"  -> [api |-> "iio.imwrite", mode |-> "ndarray",
                          data |-> SwappedRB(input_png), format |-> ".dds"]
      [] ext = "pam"  -> [api |-> "iio.imwrite", mode |-> "ndarray",
                          data |-> input_png, format |-> ""]
      [] ext = "ico"  -> [api |-> "Image.save", mode |-> "RGBA",
                          data |-> WithAlpha(input_png), format |-> "ICO"]
      [] OTHER        -> [api |-> "Image.save", mode |-> "RGB", data |-> input_png,
                          format |-> CASE ext = "bmp"  -> "BMP"
                                       [] ext = "gif"  -> "GIF"
                                       [] ext = "jpg"  -> "JPEG"
                                       [] ext = "tga"  -> "TGA"
                                       [] ext = "tif"  -> "TIFF"
                                       [] ext = "webp" -> "WEBP"
                                       [] ext = "ppm"  -> "PPM"]

\* C8: in whatever order the loop visits the keys and whichever exports
\* raise, no pass changes the shared img or img_array, each key's encoder is
\* given what the input alone determines, and each key's outcome is that of
\* its own export.
C8_OrderInsensitive ==
    script = "ldr" =>
        /\ pc \in {"loop", "qoi_write", "done"} =>
              /\ img = [mode |-> "RGB", px |-> input_png]
              /\ img_array = input_png
        /\ \A e \in Exts : raised[e] # "pending" =>
              /\ handed[e] = ExpectedCall(e) \/ (e = "qoi" /\ handed[e] = NoCall)
              /\ raised[e] = "no" =>
                    /\ HasComplete(e)
                    /\ files[ExpectedName(e)].call = ExpectedCall(e)
              /\ raised[e] = "yes" => ~HasComplete(e)

\* C8 witness: the loop has ended after visiting the keys in the reversed
\* order, qoi before ico before dds, with a failed and a saved export.
C8_Witness ==
    /\ script = "ldr" /\ pc = "done"
    /\ order = Reverse(Keys) /\ order # Keys
    /\ raised["qoi"] = "yes" /\ handed["qoi"] # NoCall
    /\ raised["ico"] = "no" /\ raised["dds"] = "no"

\* C9: the output holds one line for each key the loop has gone through, in
\* the order of the loop: the Saved line if its export did not raise, else
\* the Failed line naming it; a failed export is not tried again, and the
\* script ends by an exception only for its missing input.
C9_OneLinePerFormat ==
    script = "ldr" =>
        /\ Len(stdout) = idx - 1
        /\ \A j \in 1..(idx - 1) :
              /\ raised[order[j]] # "pending"
              /\ stdout[j] = IF raised[order[j]] = "no" THEN SavedLine(order[j])
                                                        ELSE FailedLine(order[j])
        /\ \A j \in idx..Len(order) :
              raised[order[j]] = "pending" /\ handed[order[j]] = NoCall
        /\ pc = "crashed" => input_png = NoArray
        /\ pc = "done" => idx = Len(order) + 1

\* C9 witness: the loop has ended with the first export failed and the last
\* saved.
C9_Witness ==
    /\ script = "ldr" /\ pc = "done"
    /\ stdout[1] = FailedLine("bmp")
    /\ stdout[Len(order)] = SavedLine("ppm")

\* C10: dds is given the source with red and blue swapped and green in
\* place, and swapping again gives back the source; qoi and ico are given
\* the source with an alpha sample added; every other format is given the
\* source as decoded.
C10_PreSteps ==
    script = "ldr" =>
        \A e \in Exts : handed[e] # NoCall =>
            LET d == handed[e].data
            IN  /\ DOMAIN d = DOMAIN input_png
                /\ \A r \in DOMAIN d :
                      /\ DOMAIN d[r] = DOMAIN input_png[r]
                      /\ \A c \in DOMAIN d[r] :
                            LET p == input_png[r][c]
                            IN  CASE e = "dds" -> d[r][c] = <<p[3], p[2], p[1]>>
                                  [] e \in {"qoi", "ico"} -> d[r][c] = p \o <<255>>
                                  [] OTHER -> d[r][c] = p
                /\ e = "dds" => TakeChannels(d, <<2, 1, 0>>) = input_png
                /\ handed[e].mode = CASE e = "ico" -> "RGBA"
                                      [] e \in {"qoi", "dds", "pam"} -> "ndarray"
                                      [] OTHER -> "RGB"

\* C10 witness: every encoder has been called, on a source whose red and
\* blue samples differ.
C10_Witness ==
    /\ script = "ldr" /\ pc = "done"
    /\ \A e \in Exts : handed[e] # NoCall
    /\ input_png[1][1][1] # input_png[1][1][3]

=============================================================================
